---- MODULE Spec2Model ----
(***************************************************************************)
(* Model of the patient scheduling simulation of src/cs2assign.cpp: the    *)
(* Scheduler class (two FIFO queues, the served list and five counters)    *)
(* and the console driver of main().                                       *)
(*                                                                         *)
(* Strings of the program are sequences of one-character strings, so that  *)
(* trimming, tokenising and toupper() are computed character by character. *)
(*                                                                         *)
(* Two specifications:                                                     *)
(*   Spec       - any caller of the Scheduler's public methods             *)
(*   SpecDriver - the calls main() makes, driven by lines of console input *)
(***************************************************************************)
EXTENDS Integers, Sequences, FiniteSets, TLC

VARIABLES
    urgent_queue,       \* Scheduler::urgent_queue
    normal_queue,       \* Scheduler::normal_queue
    served_patients,    \* Scheduler::served_patients
    total_patients,     \* Scheduler::total_patients
    total_urgent,       \* Scheduler::total_urgent
    total_normal,       \* Scheduler::total_normal
    total_waiting_time, \* Scheduler::total_waiting_time
    total_served,       \* Scheduler::total_served
    minute,             \* main(): int minute
    pc,                 \* main(): position ("gen", "loop", "report", "exit")
    served_minute,      \* history: the minute argument of the call that served served_patients[i]
    discarded,          \* history: the patients popped and skipped (lines 113, 139), in order
    add_calls,          \* history: number of addPatient calls made
    call                \* history: the last operation, its arguments and what it did

vars == <<urgent_queue, normal_queue, served_patients, total_patients, total_urgent,
          total_normal, total_waiting_time, total_served, minute, pc,
          served_minute, discarded, add_calls, call>>

scheduler == <<urgent_queue, normal_queue, served_patients, total_patients, total_urgent,
               total_normal, total_waiting_time, total_served>>

history == <<served_minute, discarded, add_calls>>

(***************************************************************************)
(* Bounds of the model.                                                    *)
(***************************************************************************)
\* Spec: addPatient is called at most this many times in a run
MaxPatients == 2
\* Spec: a caller passes max_to_serve in -1..MaxCap to servePatients
MaxCap == 2
\* SpecDriver: size of the generated cohort (100 at line 210)
CohortSize == 2
\* SpecDriver: max_to_serve is rand() % ServeSpan + ServeBase (6 and 5 at line 239)
ServeSpan == 2
ServeBase == 1
\* SpecDriver: at most this many records are admitted from the console
MaxManual == 1

(***************************************************************************)
(* Strings.                                                                *)
(***************************************************************************)
Lower == <<"a","b","c","d","e","f","g","h","i","j","k","l","m",
           "n","o","p","q","r","s","t","u","v","w","x","y","z">>
Upper == <<"A","B","C","D","E","F","G","H","I","J","K","L","M",
           "N","O","P","Q","R","S","T","U","V","W","X","Y","Z">>

\* toupper(c)
toupper(c) ==
    IF \E i \in 1..Len(Lower) : Lower[i] = c
    THEN Upper[CHOOSE i \in 1..Len(Lower) : Lower[i] = c]
    ELSE c

\* for (char& c : type) c = toupper(c);
ToUpperAll(s) == [i \in 1..Len(s) |-> toupper(s[i])]

\* the string literals the program compares with
STR_Urgent == <<"U","r","g","e","n","t">>
STR_Normal == <<"N","o","r","m","a","l">>
STR_URGENT == <<"U","R","G","E","N","T">>
STR_NORMAL == <<"N","O","R","M","A","L">>
STR_next   == <<"n","e","x","t">>

\* the characters of " \n\r\t" (line 229)
TrimChars == {" ", "\n", "\r", "\t"}

\* input.erase(input.find_last_not_of(" \n\r\t") + 1)
RECURSIVE TrimRight(_)
TrimRight(s) ==
    IF s = <<>> THEN s
    ELSE IF s[Len(s)] \in TrimChars THEN TrimRight(SubSeq(s, 1, Len(s) - 1))
    ELSE s

\* isspace(), as used by operator>> to skip and to delimit
IsSpace(c) == c \in {" ", "\n", "\r", "\t"}

RECURSIVE SkipWs(_)
SkipWs(s) == IF s # <<>> /\ IsSpace(Head(s)) THEN SkipWs(Tail(s)) ELSE s

RECURSIVE TakeWord(_)
TakeWord(s) ==
    IF s = <<>> \/ IsSpace(Head(s)) THEN <<>> ELSE <<Head(s)>> \o TakeWord(Tail(s))

\* ss >> str on stream state in = [rest, ok]: skips whitespace, reads a word;
\* fails (and extracts nothing from then on) when no character is left
ReadString(in) ==
    LET t == SkipWs(in.rest)
        w == TakeWord(t)
    IN  IF in.ok /\ w # <<>>
        THEN [val |-> w, rest |-> SubSeq(t, Len(w) + 1, Len(t)), ok |-> TRUE]
        ELSE [val |-> <<>>, rest |-> in.rest, ok |-> FALSE]

\* ss >> ch: skips whitespace, reads one character
ReadChar(in) ==
    LET t == SkipWs(in.rest)
    IN  IF in.ok /\ t # <<>>
        THEN [val |-> Head(t), rest |-> Tail(t), ok |-> TRUE]
        ELSE [val |-> "?", rest |-> in.rest, ok |-> FALSE]

\* stringstream ss(input); ss >> id >> gender >> arrival_time >> type;
ParseRecord(input) ==
    LET r1 == ReadString([rest |-> input, ok |-> TRUE])
        r2 == ReadChar(r1)
        r3 == ReadString(r2)
        r4 == ReadString(r3)
    IN  [id |-> r1.val, gender |-> r2.val, arrival_time |-> r3.val, type |-> r4.val]

(***************************************************************************)
(* Patient.                                                                *)
(***************************************************************************)
\* Patient(id, gender, time, type, arrival_minute); n is the history field
\* "this object was passed to the n-th addPatient call"
Patient(id, gender, time, type, arrival_minute) ==
    [id |-> id, gender |-> gender, arrival_time |-> time, type |-> type,
     arrival_minute |-> arrival_minute]

Admitted(patient, n) ==
    [id |-> patient.id, gender |-> patient.gender, arrival_time |-> patient.arrival_time,
     type |-> patient.type, arrival_minute |-> patient.arrival_minute, n |-> n]

(***************************************************************************)
(* Scheduler.                                                              *)
(***************************************************************************)
Init ==
    /\ urgent_queue = <<>>
    /\ normal_queue = <<>>
    /\ served_patients = <<>>
    /\ total_patients = 0
    /\ total_urgent = 0
    /\ total_normal = 0
    /\ total_waiting_time = 0
    /\ total_served = 0
    /\ minute = 0
    /\ pc = "gen"
    /\ served_minute = <<>>
    /\ discarded = <<>>
    /\ add_calls = 0
    /\ call = [op |-> "none"]

\* if (patient.getType() == "Urgent")
IsUrgentType(patient) == patient.type = STR_Urgent

\* addPatient with the increment of line 92 left out
addPatient_NormalNotCounted(patient) ==
    /\ IF IsUrgentType(patient)
       THEN /\ urgent_queue' = Append(urgent_queue, Admitted(patient, add_calls + 1))
            /\ total_urgent' = total_urgent + 1
            /\ UNCHANGED <<normal_queue, total_normal>>
       ELSE /\ normal_queue' = Append(normal_queue, Admitted(patient, add_calls + 1))
            /\ UNCHANGED <<urgent_queue, total_urgent, total_normal>>
    /\ total_patients' = total_patients + 1
    /\ add_calls' = add_calls + 1
    /\ call' = [op |-> "addPatient", patient |-> Admitted(patient, add_calls + 1)]
    /\ UNCHANGED <<served_patients, total_waiting_time, total_served,
                   served_minute, discarded>>

\* addPatient that puts the patient at the front of its queue
addPatient_AtFront(patient) ==
    /\ IF IsUrgentType(patient)
       THEN /\ urgent_queue' = <<Admitted(patient, add_calls + 1)>> \o urgent_queue
            /\ total_urgent' = total_urgent + 1
            /\ UNCHANGED <<normal_queue, total_normal>>
       ELSE /\ normal_queue' = <<Admitted(patient, add_calls + 1)>> \o normal_queue
            /\ total_normal' = total_normal + 1
            /\ UNCHANGED <<urgent_queue, total_urgent>>
    /\ total_patients' = total_patients + 1
    /\ add_calls' = add_calls + 1
    /\ call' = [op |-> "addPatient", patient |-> Admitted(patient, add_calls + 1)]
    /\ UNCHANGED <<served_patients, total_waiting_time, total_served,
                   served_minute, discarded>>

\* Scheduler::addPatient
addPatient(patient) ==
    /\ IF IsUrgentType(patient)
       THEN /\ urgent_queue' = Append(urgent_queue, Admitted(patient, add_calls + 1))
            /\ total_urgent' = total_urgent + 1
            /\ UNCHANGED <<normal_queue, total_normal>>
       ELSE /\ normal_queue' = Append(normal_queue, Admitted(patient, add_calls + 1))
            /\ total_normal' = total_normal + 1
            /\ UNCHANGED <<urgent_queue, total_urgent>>
    /\ total_patients' = total_patients + 1
    /\ add_calls' = add_calls + 1
    /\ call' = [op |-> "addPatient", patient |-> Admitted(patient, add_calls + 1)]
    /\ UNCHANGED <<served_patients, total_waiting_time, total_served,
                   served_minute, discarded>>

\* the loop condition with <= for <
LoopCondition_OneMore(served, max_to_serve, queue) == served <= max_to_serve /\ queue # <<>>

\* the loop condition without the test for an empty queue
LoopCondition_NoEmptyTest(served, max_to_serve, queue) == served < max_to_serve

\* while (served < max_to_serve && !queue.empty())    (lines 102, 128)
LoopCondition(served, max_to_serve, queue) == served < max_to_serve /\ queue # <<>>

\* int waiting_time = minute - p.getArrivalMinute();  (lines 109, 135)
WaitingTime(p, m) == m - p.arrival_minute

\* the limit off by one
TooLong_Eleven(waiting_time) == waiting_time > 11

\* if (waiting_time > 10)                             (lines 111, 137)
TooLong(waiting_time) == waiting_time > 10

\* a skipped patient that uses up one of the slots of the call
Skip_CountsAsServed(st, which, p, m) ==
    [st EXCEPT !.disc = Append(@, p),
               !.served = @ + 1,
               !.pops = Append(@, [queue |-> which, p |-> p,
                                   waiting_time |-> WaitingTime(p, m), served |-> FALSE])]

\* the patient popped and skipped by "continue" (lines 111-114, 137-140):
\* nothing but the pop has happened
Skip(st, which, p, m) ==
    [st EXCEPT !.disc = Append(@, p),
               !.pops = Append(@, [queue |-> which, p |-> p,
                                   waiting_time |-> WaitingTime(p, m), served |-> FALSE])]

\* serving without adding the waiting time (lines 117, 143 left out)
Serve_WaitNotAdded(st, which, p, m) ==
    [st EXCEPT !.sp = Append(@, p),
               !.sm = Append(@, m),
               !.served = @ + 1,
               !.pops = Append(@, [queue |-> which, p |-> p,
                                   waiting_time |-> WaitingTime(p, m), served |-> TRUE])]

\* serving with the waiting time subtracted
Serve_WaitSubtracted(st, which, p, m) ==
    [st EXCEPT !.sp = Append(@, p),
               !.sm = Append(@, m),
               !.twt = @ - WaitingTime(p, m),
               !.served = @ + 1,
               !.pops = Append(@, [queue |-> which, p |-> p,
                                   waiting_time |-> WaitingTime(p, m), served |-> TRUE])]

\* serving with the patient put at the front of served_patients
Serve_AtFront(st, which, p, m) ==
    [st EXCEPT !.sp = <<p>> \o @,
               !.sm = <<m>> \o @,
               !.twt = @ + WaitingTime(p, m),
               !.served = @ + 1,
               !.pops = Append(@, [queue |-> which, p |-> p,
                                   waiting_time |-> WaitingTime(p, m), served |-> TRUE])]

\* served_patients.push_back(p); total_waiting_time += waiting_time; served++;
\* (lines 116-118, 142-144)
Serve(st, which, p, m) ==
    [st EXCEPT !.sp = Append(@, p),
               !.sm = Append(@, m),
               !.twt = @ + WaitingTime(p, m),
               !.served = @ + 1,
               !.pops = Append(@, [queue |-> which, p |-> p,
                                   waiting_time |-> WaitingTime(p, m), served |-> TRUE])]

\* the first loop of servePatients (lines 102-125) on the local state st
RECURSIVE UrgentLoop(_, _, _)
UrgentLoop(st, max_to_serve, m) ==
    IF LoopCondition(st.served, max_to_serve, st.uq)
    THEN IF st.uq # <<>>
         THEN LET p == Head(st.uq)
                  popped == [st EXCEPT !.uq = Tail(@)]
              IN  IF TooLong(WaitingTime(p, m))
                  THEN UrgentLoop(Skip(popped, "urgent", p, m), max_to_serve, m)
                  ELSE UrgentLoop(Serve(popped, "urgent", p, m), max_to_serve, m)
         ELSE \* throw runtime_error("Urgent queue is empty!"), caught at line 122
              [st EXCEPT !.errors = Append(@, "Urgent queue is empty!")]
    ELSE st

\* the second loop of servePatients (lines 128-151)
RECURSIVE NormalLoop(_, _, _)
NormalLoop(st, max_to_serve, m) ==
    IF LoopCondition(st.served, max_to_serve, st.nq)
    THEN IF st.nq # <<>>
         THEN LET p == Head(st.nq)
                  popped == [st EXCEPT !.nq = Tail(@)]
              IN  IF TooLong(WaitingTime(p, m))
                  THEN NormalLoop(Skip(popped, "normal", p, m), max_to_serve, m)
                  ELSE NormalLoop(Serve(popped, "normal", p, m), max_to_serve, m)
         ELSE \* throw runtime_error("Normal queue is empty!"), caught at line 148
              [st EXCEPT !.errors = Append(@, "Normal queue is empty!")]
    ELSE st

\* the locals and fields servePatients works on, at entry (int served = 0)
ServeEntry ==
    [uq |-> urgent_queue, nq |-> normal_queue, sp |-> served_patients,
     sm |-> served_minute, twt |-> total_waiting_time, served |-> 0,
     disc |-> discarded, pops |-> <<>>, errors |-> <<>>]

\* the two loops in the other order
ServeLoops_NormalFirst(st, max_to_serve, m) ==
    UrgentLoop(NormalLoop(st, max_to_serve, m), max_to_serve, m)

\* the two loops in the order of the source
ServeLoops(st, max_to_serve, m) == NormalLoop(UrgentLoop(st, max_to_serve, m), max_to_serve, m)

\* servePatients that counts the skipped patients in total_served too
servePatients_SkippedCounted(max_to_serve, m) ==
    LET end == ServeLoops(ServeEntry, max_to_serve, m)
    IN  /\ urgent_queue' = end.uq
        /\ normal_queue' = end.nq
        /\ served_patients' = end.sp
        /\ total_waiting_time' = end.twt
        /\ total_served' = total_served + Len(end.pops)
        /\ served_minute' = end.sm
        /\ discarded' = end.disc
        /\ call' = [op |-> "servePatients", max_to_serve |-> max_to_serve, minute |-> m,
                    pops |-> end.pops, served |-> end.served, errors |-> end.errors]
        /\ UNCHANGED <<total_patients, total_urgent, total_normal, add_calls>>

\* Scheduler::servePatients
servePatients(max_to_serve, m) ==
    LET end == ServeLoops(ServeEntry, max_to_serve, m)
    IN  /\ urgent_queue' = end.uq
        /\ normal_queue' = end.nq
        /\ served_patients' = end.sp
        /\ total_waiting_time' = end.twt
        /\ total_served' = total_served + end.served
        /\ served_minute' = end.sm
        /\ discarded' = end.disc
        /\ call' = [op |-> "servePatients", max_to_serve |-> max_to_serve, minute |-> m,
                    pops |-> end.pops, served |-> end.served, errors |-> end.errors]
        /\ UNCHANGED <<total_patients, total_urgent, total_normal, add_calls>>

(***************************************************************************)
(* Spec: any caller of the Scheduler.                                      *)
(***************************************************************************)
\* the patients a caller passes: a valid category, arrival_minute set by the caller
CallerIds == {<<"A","1">>}
CallerArrivals == {0, 1}
CallerPatients ==
    {Patient(id, "M", <<"0",":","0">>, type, a) :
        id \in CallerIds, type \in {STR_Urgent, STR_Normal}, a \in CallerArrivals}

\* the minutes a caller passes: before, at and after the arrivals, and such that
\* the waits lie on both sides of the 10-minute limit
CallerMinutes == {0, 10, 11}
CallerCapacities == (0 - 1)..MaxCap

AddPatient ==
    \E patient \in CallerPatients :
        /\ add_calls < MaxPatients
        /\ addPatient(patient)
        /\ UNCHANGED <<minute, pc>>

ServePatients ==
    \E max_to_serve \in CallerCapacities, m \in CallerMinutes :
        /\ servePatients(max_to_serve, m)
        /\ UNCHANGED <<minute, pc>>

Next == AddPatient \/ ServePatients

Spec == Init /\ [][Next]_vars

\* isUrgentQueueEmpty, isNormalQueueEmpty
isUrgentQueueEmpty == urgent_queue = <<>>
isNormalQueueEmpty == normal_queue = <<>>

\* the average computed without the test of total_served
AverageWaitingTime_NoTest ==
    [available |-> TRUE, sum |-> total_waiting_time, count |-> total_served]

\* the average of displayStatistics (lines 195-200): the quotient is kept as the
\* pair it is computed from
AverageWaitingTime ==
    IF total_served > 0
    THEN [available |-> TRUE, sum |-> total_waiting_time, count |-> total_served]
    ELSE [available |-> FALSE, sum |-> 0, count |-> 0]

\* Scheduler::displayStatistics: what it prints
displayStatistics ==
    /\ call' = [op |-> "displayStatistics", total_patients |-> total_patients,
                total_urgent |-> total_urgent, total_normal |-> total_normal,
                total_served |-> total_served, average |-> AverageWaitingTime]
    /\ UNCHANGED <<scheduler, history>>

\* the ids printed by emptying a copy of a queue (lines 162-166, 171-175)
RECURSIVE PrintAndPop(_)
PrintAndPop(temp) ==
    IF temp # <<>> THEN <<Head(temp).id>> \o PrintAndPop(Tail(temp)) ELSE <<>>

\* Scheduler::displayQueues: what it prints
displayQueues ==
    /\ call' = [op |-> "displayQueues",
                urgent |-> PrintAndPop(urgent_queue),
                normal |-> PrintAndPop(normal_queue),
                served |-> [i \in 1..Len(served_patients) |-> served_patients[i].id]]
    /\ UNCHANGED <<scheduler, history>>

(***************************************************************************)
(* SpecObserved: the scheduler used by any caller, with the operations     *)
(* that only report.                                                       *)
(***************************************************************************)
DisplayQueues == displayQueues /\ UNCHANGED <<minute, pc>>

DisplayStatistics == displayStatistics /\ UNCHANGED <<minute, pc>>

IsUrgentQueueEmpty ==
    /\ call' = [op |-> "isUrgentQueueEmpty", result |-> isUrgentQueueEmpty]
    /\ UNCHANGED <<scheduler, history, minute, pc>>

IsNormalQueueEmpty ==
    /\ call' = [op |-> "isNormalQueueEmpty", result |-> isNormalQueueEmpty]
    /\ UNCHANGED <<scheduler, history, minute, pc>>

NextObserved ==
    \/ AddPatient
    \/ ServePatients
    \/ DisplayQueues
    \/ DisplayStatistics
    \/ IsUrgentQueueEmpty
    \/ IsNormalQueueEmpty

SpecObserved == Init /\ [][NextObserved]_vars

(***************************************************************************)
(* SpecDriver: main().                                                     *)
(***************************************************************************)
\* the lines of console input
\* "next": the command
LINE_next == <<"n","e","x","t">>
\* "next \t": the command followed by whitespace, which line 229 trims
LINE_next_trailing == <<"n","e","x","t"," ","\t">>
\* " next": leading whitespace is not trimmed: a record with the id "next"
LINE_next_leading == <<" ","n","e","x","t">>
\* "": an empty line (also what getline leaves at end of input)
LINE_empty == <<>>
\* "  ": whitespace only
LINE_blank == <<" "," ">>
\* "A1 M 9:05 Urgent": a record of category Urgent
LINE_urgent == <<"A","1"," ","M"," ","9",":","0","5"," ","U","r","g","e","n","t">>
\* "A2 F 9:10 urgent": the same category in lower case
LINE_urgent_lower == <<"A","2"," ","F"," ","9",":","1","0"," ","u","r","g","e","n","t">>
\* "N1 F 9:15 Normal": a record of category Normal
LINE_normal == <<"N","1"," ","F"," ","9",":","1","5"," ","N","o","r","m","a","l">>
\* "B1 M 9:20 Other": a category that is neither
LINE_other == <<"B","1"," ","M"," ","9",":","2","0"," ","O","t","h","e","r">>
\* "C1 M 9:25": the category field is missing
LINE_short == <<"C","1"," ","M"," ","9",":","2","5">>
\* "D1 Male 9:30 Urgent": gender is read as one character, so the fields shift
LINE_word_gender == <<"D","1"," ","M","a","l","e"," ","9",":","3","0"," ","U","r","g","e","n","t">>

Lines ==
    {LINE_next,
     LINE_next_trailing,
     LINE_next_leading,
     LINE_empty,
     LINE_blank,
     LINE_urgent,
     LINE_urgent_lower,
     LINE_normal,
     LINE_other,
     LINE_short,
     LINE_word_gender}

\* PatientGenerator::generateRandomPatient(minute): the random id, gender and
\* arrival time are drawn from these sets, the type is "Urgent" or "Normal"
GenIds == {<<"2","0","7">>}
GenGenders == {"M", "F"}
GenTimes == {<<"7",":","4","5">>}
GeneratedPatients(m) ==
    {Patient(id, gender, time, type, m) :
        id \in GenIds, gender \in GenGenders, time \in GenTimes,
        type \in {STR_Urgent, STR_Normal}}

\* lines 210-213: the cohort generated for minute 0 is added, one patient per step
GenerateCohort ==
    /\ pc = "gen"
    /\ \E patient \in GeneratedPatients(minute) : addPatient(patient)
    /\ pc' = IF add_calls + 1 = CohortSize THEN "loop" ELSE "gen"
    /\ UNCHANGED minute

\* int max_to_serve = rand() % 6 + 5;
DriverCapacities == {r + ServeBase : r \in 0..(ServeSpan - 1)}

\* if (input.empty()) { ...; continue; }
EmptyInput ==
    /\ pc = "loop"
    /\ \E line \in Lines :
        /\ TrimRight(line) = <<>>
        /\ call' = [op |-> "empty", line |-> line]
    /\ UNCHANGED <<scheduler, history, minute, pc>>

\* the test of line 249 on the urgent queue alone
EndOfSimulation_UrgentOnly == isUrgentQueueEmpty'

\* if (scheduler.isUrgentQueueEmpty() && scheduler.isNormalQueueEmpty()) break;
\* evaluated after servePatients, so on the queues it has left
EndOfSimulation == isUrgentQueueEmpty' /\ isNormalQueueEmpty'

\* if (input == "next") { ... }  (lines 237-255)
NextStep ==
    /\ pc = "loop"
    /\ \E line \in Lines :
        /\ TrimRight(line) = STR_next
        /\ \E max_to_serve \in DriverCapacities : servePatients(max_to_serve, minute)
    /\ minute' = minute + 1
    /\ pc' = IF EndOfSimulation THEN "report" ELSE "loop"

\* a validation that lets every type through
ValidType_AcceptsAll(type) == TRUE

\* if (type != "URGENT" && type != "NORMAL") throw ...
ValidType(type) == ~(type # STR_URGENT /\ type # STR_NORMAL)

\* the type after the normalisation of line 267
NormalizedType(input) == ToUpperAll(ParseRecord(input).type)

\* lines 258-276, no exception: the record is parsed and the patient added
ManualEntry ==
    /\ pc = "loop"
    /\ add_calls < CohortSize + MaxManual
    /\ \E line \in Lines :
        LET input == TrimRight(line)
            rec == ParseRecord(input)
            type == NormalizedType(input)
        IN  /\ input # <<>>
            /\ input # STR_next
            /\ ValidType(type)
            /\ addPatient(Patient(rec.id, rec.gender, rec.arrival_time, type, minute))
    /\ UNCHANGED <<minute, pc>>

\* lines 270-272 and 277-280: the exception is caught and the loop goes on
RejectedEntry ==
    /\ pc = "loop"
    /\ \E line \in Lines :
        LET input == TrimRight(line)
        IN  /\ input # <<>>
            /\ input # STR_next
            /\ ~ValidType(NormalizedType(input))
            /\ call' = [op |-> "rejected", line |-> line]
    /\ UNCHANGED <<scheduler, history, minute, pc>>

\* line 284, after the loop
FinalStatistics ==
    /\ pc = "report"
    /\ displayStatistics
    /\ pc' = "exit"
    /\ UNCHANGED minute

NextDriver ==
    \/ GenerateCohort
    \/ EmptyInput
    \/ NextStep
    \/ ManualEntry
    \/ RejectedEntry
    \/ FinalStatistics

SpecDriver == Init /\ [][NextDriver]_vars

(***************************************************************************)
(* SpecCrowded: main() with a cohort large enough for patients to be still *)
(* queued when their wait exceeds the limit of servePatients.  The cohorts *)
(* tried are those of one type, the console lines a few of each kind.      *)
(***************************************************************************)
CrowdSize == 12

CrowdLines == {LINE_next, LINE_blank, LINE_normal, LINE_urgent_lower, LINE_short}

\* generateRandomPatient for the crowd: one gender, any type
CrowdPatients(m) == {p \in GeneratedPatients(m) : p.gender = "M"}

\* lines 210-213 for the crowd, one patient per step
GenerateCrowd ==
    /\ pc = "gen"
    /\ \E patient \in CrowdPatients(minute) :
          /\ urgent_queue # <<>> => patient.type = STR_Urgent
          /\ normal_queue # <<>> => patient.type = STR_Normal
          /\ addPatient(patient)
    /\ pc' = IF add_calls + 1 = CrowdSize THEN "loop" ELSE "gen"
    /\ UNCHANGED minute

\* if (input.empty()) { ...; continue; }
CrowdEmptyInput ==
    /\ pc = "loop"
    /\ \E line \in CrowdLines :
        /\ TrimRight(line) = <<>>
        /\ call' = [op |-> "empty", line |-> line]
    /\ UNCHANGED <<scheduler, history, minute, pc>>

\* if (input == "next") { ... }  (lines 237-255)
CrowdNextStep ==
    /\ pc = "loop"
    /\ \E line \in CrowdLines :
        /\ TrimRight(line) = STR_next
        /\ \E max_to_serve \in DriverCapacities : servePatients(max_to_serve, minute)
    /\ minute' = minute + 1
    /\ pc' = IF EndOfSimulation THEN "report" ELSE "loop"

\* a manual entry that gives the patient the arrival minute 0
CrowdManualEntry_ArrivalZero ==
    /\ pc = "loop"
    /\ add_calls < CrowdSize + MaxManual
    /\ \E line \in CrowdLines :
        LET input == TrimRight(line)
            rec == ParseRecord(input)
            type == NormalizedType(input)
        IN  /\ input # <<>>
            /\ input # STR_next
            /\ ValidType(type)
            /\ addPatient(Patient(rec.id, rec.gender, rec.arrival_time, type, 0))
    /\ UNCHANGED <<minute, pc>>

\* lines 258-276, no exception
CrowdManualEntry ==
    /\ pc = "loop"
    /\ add_calls < CrowdSize + MaxManual
    /\ \E line \in CrowdLines :
        LET input == TrimRight(line)
            rec == ParseRecord(input)
            type == NormalizedType(input)
        IN  /\ input # <<>>
            /\ input # STR_next
            /\ ValidType(type)
            /\ addPatient(Patient(rec.id, rec.gender, rec.arrival_time, type, minute))
    /\ UNCHANGED <<minute, pc>>

\* lines 270-272 and 277-280
CrowdRejectedEntry ==
    /\ pc = "loop"
    /\ \E line \in CrowdLines :
        LET input == TrimRight(line)
        IN  /\ input # <<>>
            /\ input # STR_next
            /\ ~ValidType(NormalizedType(input))
            /\ call' = [op |-> "rejected", line |-> line]
    /\ UNCHANGED <<scheduler, history, minute, pc>>

NextCrowded ==
    \/ GenerateCrowd
    \/ CrowdEmptyInput
    \/ CrowdNextStep
    \/ CrowdManualEntry
    \/ CrowdRejectedEntry
    \/ FinalStatistics

SpecCrowded == Init /\ [][NextCrowded]_vars

(***************************************************************************)
(* SpecEither: the scheduler is either driven by main (pc starts at "gen") *)
(* or used by any caller (pc is "caller" throughout).                      *)
(***************************************************************************)
InitEither ==
    /\ urgent_queue = <<>>
    /\ normal_queue = <<>>
    /\ served_patients = <<>>
    /\ total_patients = 0
    /\ total_urgent = 0
    /\ total_normal = 0
    /\ total_waiting_time = 0
    /\ total_served = 0
    /\ minute = 0
    /\ pc \in {"gen", "caller"}
    /\ served_minute = <<>>
    /\ discarded = <<>>
    /\ add_calls = 0
    /\ call = [op |-> "none"]

CallerAddPatient == pc = "caller" /\ AddPatient

CallerServePatients == pc = "caller" /\ ServePatients

NextEither ==
    \/ CallerAddPatient
    \/ CallerServePatients
    \/ GenerateCrowd
    \/ CrowdEmptyInput
    \/ CrowdNextStep
    \/ CrowdManualEntry
    \/ CrowdRejectedEntry
    \/ FinalStatistics

SpecEither == InitEither /\ [][NextEither]_vars

(***************************************************************************)
(* What the claims speak of.                                               *)
(***************************************************************************)
Range(s) == {s[i] : i \in 1..Len(s)}

Queued == Range(urgent_queue) \cup Range(normal_queue)

\* the wait of the i-th served patient at the call that served it
ServedWait(i) == served_minute[i] - served_patients[i].arrival_minute

RECURSIVE SumServedWaits(_)
SumServedWaits(k) == IF k = 0 THEN 0 ELSE SumServedWaits(k - 1) + ServedWait(k)

\* of the pops of a call: the served ones, the skipped ones, the waits of the served
ServedPops(pops) == {i \in 1..Len(pops) : pops[i].served}
SkippedPops(pops) == {i \in 1..Len(pops) : ~pops[i].served}

RECURSIVE SumWaitsOfServedPops(_)
SumWaitsOfServedPops(pops) ==
    IF pops = <<>> THEN 0
    ELSE (IF Head(pops).served THEN Head(pops).waiting_time ELSE 0)
         + SumWaitsOfServedPops(Tail(pops))

\* the step is a call of servePatients / of addPatient
ServeStep == call'.op = "servePatients"
AddStep == add_calls' # add_calls

(***************************************************************************)
(* C1: the admission counters add up: total_patients = total_urgent +      *)
(* total_normal = the number of addPatient calls, whatever servePatients   *)
(* calls come in between, and an addPatient call adds exactly 1 to         *)
(* total_patients and to exactly one of total_urgent and total_normal.     *)
(***************************************************************************)
C1_CountersAddUp ==
    /\ total_patients = total_urgent + total_normal
    /\ total_patients = add_calls

C1_AdmissionCounters ==
    /\ C1_CountersAddUp
    /\ [][/\ C1_CountersAddUp'
          /\ AddStep =>
                /\ add_calls' = add_calls + 1
                /\ total_patients' = total_patients + 1
                /\ \/ total_urgent' = total_urgent + 1 /\ total_normal' = total_normal
                   \/ total_normal' = total_normal + 1 /\ total_urgent' = total_urgent
          /\ ~AddStep => UNCHANGED <<total_patients, total_urgent, total_normal>>]_vars

\* both kinds admitted, with a serving call in between
C1_Witness ==
    /\ add_calls = 2
    /\ total_urgent = 1
    /\ total_normal = 1
    /\ total_served = 1
    /\ call.op = "addPatient"

(***************************************************************************)
(* C2: urgent first within one servePatients call: every pop of the urgent *)
(* queue comes before every pop of the normal queue, and the normal queue  *)
(* is popped only in a call that has emptied the urgent queue; a call that *)
(* leaves the urgent queue non-empty leaves the normal queue as it was;    *)
(* and with max_to_serve >= 1, both queues non-empty and nobody waiting    *)
(* more than 10, the first patient the call serves is the head of the      *)
(* urgent queue.                                                           *)
(***************************************************************************)
C2_UrgentPopsFirst ==
    call.op = "servePatients" =>
        /\ \A i, j \in 1..Len(call.pops) :
              i < j => ~(call.pops[i].queue = "normal" /\ call.pops[j].queue = "urgent")
        /\ (\E i \in 1..Len(call.pops) : call.pops[i].queue = "normal")
              => urgent_queue = <<>>

C2_UrgentFirst ==
    [][ServeStep =>
          /\ C2_UrgentPopsFirst'
          /\ urgent_queue' # <<>> => normal_queue' = normal_queue
          /\ ( /\ call'.max_to_serve >= 1
               /\ urgent_queue # <<>>
               /\ normal_queue # <<>>
               /\ \A p \in Queued : ~(call'.minute - p.arrival_minute > 10) )
             => /\ Len(served_patients') > Len(served_patients)
                /\ served_patients'[Len(served_patients) + 1] = Head(urgent_queue)]_vars

\* a call that served the urgent patient and then the normal one
C2_Witness ==
    /\ call.op = "servePatients"
    /\ Len(call.pops) = 2
    /\ call.pops[1].queue = "urgent" /\ call.pops[1].served
    /\ call.pops[2].queue = "normal" /\ call.pops[2].served

(***************************************************************************)
(* C3: nobody who has waited more than 10 minutes is served: every entry   *)
(* of served_patients had waited at most 10 at the call that served it,    *)
(* and a call serves exactly the patients it pops whose wait is <= 10.     *)
(***************************************************************************)
C3_WaitThreshold ==
    /\ Len(served_minute) = Len(served_patients)
    /\ \A i \in 1..Len(served_patients) : ServedWait(i) <= 10
    /\ call.op = "servePatients" =>
          \A i \in 1..Len(call.pops) :
              /\ call.pops[i].waiting_time = call.minute - call.pops[i].p.arrival_minute
              /\ call.pops[i].served <=> call.pops[i].waiting_time <= 10

\* one patient served after exactly 10 minutes, one skipped after 11
C3_Witness ==
    /\ \E i \in 1..Len(served_patients) : ServedWait(i) = 10
    /\ call.op = "servePatients"
    /\ \E i \in 1..Len(call.pops) :
          call.pops[i].waiting_time = 11 /\ call.pops[i].p \notin Range(served_patients)

(***************************************************************************)
(* C4: a servePatients call with max_to_serve >= 0 appends at most         *)
(* max_to_serve patients to served_patients, urgent and normal together,   *)
(* and raises total_served by at most max_to_serve.                        *)
(***************************************************************************)
C4_CapacityBound ==
    [][(ServeStep /\ call'.max_to_serve >= 0) =>
          /\ Len(served_patients') - Len(served_patients) <= call'.max_to_serve
          /\ total_served' - total_served <= call'.max_to_serve
          /\ Cardinality(ServedPops(call'.pops)) <= call'.max_to_serve]_vars

\* the bound is reached while a patient who could be served is left
C4_Witness ==
    /\ call.op = "servePatients"
    /\ call.max_to_serve = 1
    /\ call.served = 1
    /\ \E p \in Queued : call.minute - p.arrival_minute <= 10

(***************************************************************************)
(* C5: total_served is the length of served_patients and                   *)
(* total_waiting_time is the sum of the waits of its entries, each taken   *)
(* at the call that served the entry; the average of displayStatistics is  *)
(* that sum over that length.                                              *)
(***************************************************************************)
C5_WaitAccounting ==
    /\ total_served = Len(served_patients)
    /\ Len(served_minute) = Len(served_patients)
    /\ total_waiting_time = SumServedWaits(Len(served_patients))
    /\ total_served > 0 =>
          /\ AverageWaitingTime.available
          /\ AverageWaitingTime.sum = SumServedWaits(Len(served_patients))
          /\ AverageWaitingTime.count = Len(served_patients)

\* two patients served after 10 and 9 minutes
C5_Witness ==
    /\ total_served = 2
    /\ total_waiting_time = 19

(***************************************************************************)
(* C6: a patient popped after more than 10 minutes is gone: it is in no    *)
(* queue and not in served_patients from then on, adds nothing to          *)
(* total_served or total_waiting_time, and uses none of the slots of the   *)
(* call, which goes on popping until max_to_serve patients are served or   *)
(* both queues are empty.                                                  *)
(***************************************************************************)
C6_DiscardedAreGone ==
    \A d \in Range(discarded) :
        /\ \A q \in Queued : q.n # d.n
        /\ \A v \in Range(served_patients) : v.n # d.n

C6_SilentDiscard ==
    /\ C6_DiscardedAreGone
    /\ [][/\ C6_DiscardedAreGone'
          /\ ServeStep =>
             LET pops == call'.pops IN
                /\ \A i \in SkippedPops(pops) :
                      /\ pops[i].waiting_time > 10
                      /\ pops[i].p \in Range(discarded')
                /\ Len(discarded') = Len(discarded) + Cardinality(SkippedPops(pops))
                /\ Len(urgent_queue) + Len(normal_queue)
                      = Len(urgent_queue') + Len(normal_queue') + Len(pops)
                /\ total_served' = total_served + Cardinality(ServedPops(pops))
                /\ Len(served_patients')
                      = Len(served_patients) + Cardinality(ServedPops(pops))
                /\ total_waiting_time' = total_waiting_time + SumWaitsOfServedPops(pops)
                /\ Cardinality(ServedPops(pops)) < call'.max_to_serve
                      => urgent_queue' = <<>> /\ normal_queue' = <<>>]_vars

\* a call that took more patients off the queues than max_to_serve
C6_Witness ==
    /\ call.op = "servePatients"
    /\ call.max_to_serve = 1
    /\ Len(call.pops) = 2
    /\ ~call.pops[1].served
    /\ call.pops[2].served
    /\ discarded # <<>>

(***************************************************************************)
(* C7, as claimed: over every addPatient call and every servePatients call *)
(* with max_to_serve >= 0 and any minute, none of the five counters        *)
(* decreases.                                                              *)
(***************************************************************************)
C7_AsClaimed ==
    [][(IF ServeStep THEN call'.max_to_serve >= 0 ELSE TRUE) =>
          /\ total_patients' >= total_patients
          /\ total_urgent' >= total_urgent
          /\ total_normal' >= total_normal
          /\ total_served' >= total_served
          /\ total_waiting_time' >= total_waiting_time]_vars

(***************************************************************************)
(* C7, amended: total_patients, total_urgent, total_normal and             *)
(* total_served never decrease, skipped patients included;                 *)
(* total_waiting_time does not decrease over a servePatients call whose    *)
(* minute is not before the arrival_minute of any patient it serves.       *)
(***************************************************************************)
C7_CountersMonotone ==
    [][/\ total_patients' >= total_patients
       /\ total_urgent' >= total_urgent
       /\ total_normal' >= total_normal
       /\ total_served' >= total_served
       /\ ServeStep =>
            /\ UNCHANGED <<total_patients, total_urgent, total_normal>>
            /\ (\A i \in ServedPops(call'.pops) :
                    call'.minute >= call'.pops[i].p.arrival_minute)
                  => total_waiting_time' >= total_waiting_time
       /\ ~ServeStep => total_waiting_time' = total_waiting_time]_vars

\* a call that skipped one patient and served another who had waited
C7_Witness ==
    /\ call.op = "servePatients"
    /\ SkippedPops(call.pops) # {}
    /\ \E i \in ServedPops(call.pops) : call.pops[i].waiting_time > 0
    /\ total_patients = 2
    /\ total_waiting_time > 0

\* a category resolves to Urgent or to Normal whatever its case
ResolvesToUrgent(p) == ToUpperAll(p.type) = STR_URGENT
ResolvesToNormal(p) == ToUpperAll(p.type) = STR_NORMAL

\* every patient ever passed to addPatient
AllAdmitted == Queued \cup Range(served_patients) \cup Range(discarded)

Last(q) == q[Len(q)]

(***************************************************************************)
(* C8: a patient the driver admits, from a console record or from the      *)
(* generator, whose category resolves to Urgent is appended to             *)
(* urgent_queue and counted in total_urgent, and one whose category        *)
(* resolves to Normal is appended to normal_queue and counted in           *)
(* total_normal.                                                           *)
(***************************************************************************)
C8_DriverRouting ==
    /\ call.op = "addPatient" =>
          /\ ResolvesToUrgent(call.patient) =>
                urgent_queue # <<>> /\ Last(urgent_queue) = call.patient
          /\ ResolvesToNormal(call.patient) =>
                normal_queue # <<>> /\ Last(normal_queue) = call.patient
    /\ total_urgent = Cardinality({p \in AllAdmitted : ResolvesToUrgent(p)})
    /\ total_normal = Cardinality({p \in AllAdmitted : ResolvesToNormal(p)})

(***************************************************************************)
(* C9: the queues are disjoint, every patient in urgent_queue is of        *)
(* category Urgent and every patient in normal_queue of category Normal,   *)
(* and no patient is in a queue and in served_patients at once.            *)
(***************************************************************************)
C9_QueuePartition ==
    /\ \A u \in Range(urgent_queue), v \in Range(normal_queue) : u.n # v.n
    /\ \A u \in Range(urgent_queue) : ResolvesToUrgent(u)
    /\ \A v \in Range(normal_queue) : ResolvesToNormal(v)
    /\ \A q \in Queued, v \in Range(served_patients) : q.n # v.n

(***************************************************************************)
(* C10: the driver leaves its loop exactly on a "next" step (serving pass, *)
(* then minute + 1) after which both queues are empty, and then asks for   *)
(* the statistics; an admission, an empty line or a rejected record never  *)
(* ends the loop.                                                          *)
(***************************************************************************)
C10_DriverTermination ==
    [][/\ pc = "gen" => pc' \in {"gen", "loop"}
       /\ pc = "loop" =>
            /\ pc' \in {"loop", "report"}
            /\ pc' = "report" <=>
                  /\ call'.op = "servePatients"
                  /\ minute' = minute + 1
                  /\ urgent_queue' = <<>>
                  /\ normal_queue' = <<>>
            /\ call'.op \in {"addPatient", "empty", "rejected"} => pc' = "loop"
       /\ pc = "report" => pc' = "exit" /\ call'.op = "displayStatistics"]_vars

\* the loop went on after one "next" step and ended on a later one
C10_Witness ==
    /\ pc = "report"
    /\ minute >= 2
    /\ call.op = "servePatients"
    /\ urgent_queue = <<>>
    /\ normal_queue = <<>>

Min(a, b) == IF a <= b THEN a ELSE b

\* the waits, at minute m, of the patients of q
RECURSIVE SumOfWaits(_, _)
SumOfWaits(q, m) ==
    IF q = <<>> THEN 0 ELSE (m - Head(q).arrival_minute) + SumOfWaits(Tail(q), m)

\* q is what is left of p after removing some of its first elements
IsSuffix(q, p) == Len(q) <= Len(p) /\ q = SubSeq(p, Len(p) - Len(q) + 1, Len(p))

(***************************************************************************)
(* C11: a servePatients call with max_to_serve >= 0 that finds nobody      *)
(* waiting more than 10, u patients in urgent_queue and n in normal_queue, *)
(* takes the first k = min(max_to_serve, u) of urgent_queue and then the   *)
(* first min(max_to_serve - k, n) of normal_queue, appends them to         *)
(* served_patients in that order, adds their number to total_served and    *)
(* their waits to total_waiting_time, and leaves the rest queued in order. *)
(***************************************************************************)
C11_ServeResult ==
    [][( /\ ServeStep
         /\ call'.max_to_serve >= 0
         /\ \A p \in Queued : ~(call'.minute - p.arrival_minute > 10) )
       => LET u == Len(urgent_queue)
              n == Len(normal_queue)
              k == Min(call'.max_to_serve, u)
              j == Min(call'.max_to_serve - k, n)
              taken == SubSeq(urgent_queue, 1, k) \o SubSeq(normal_queue, 1, j)
          IN  /\ urgent_queue' = SubSeq(urgent_queue, k + 1, u)
              /\ normal_queue' = SubSeq(normal_queue, j + 1, n)
              /\ served_patients' = served_patients \o taken
              /\ total_served' = total_served + k + j
              /\ total_waiting_time' = total_waiting_time + SumOfWaits(taken, call'.minute)]_vars

\* scenario 2 of the specification: one slot, the urgent patient is served and
\* the normal one stays queued
C11_Witness ==
    /\ call.op = "servePatients"
    /\ call.max_to_serve = 1
    /\ Len(call.pops) = 1
    /\ call.pops[1].queue = "urgent" /\ call.pops[1].served
    /\ Len(normal_queue) = 1
    /\ total_served = 1

(***************************************************************************)
(* C13: a servePatients call with max_to_serve = 0, or with both queues    *)
(* empty, changes nothing of the scheduler; and no servePatients call ever *)
(* reaches the "queue is empty" error branch of its loops.                 *)
(***************************************************************************)
C13_ServeNoOp ==
    [][ServeStep =>
          /\ call'.errors = <<>>
          /\ ( \/ call'.max_to_serve = 0
               \/ (urgent_queue = <<>> /\ normal_queue = <<>>) )
             => ( UNCHANGED scheduler /\ call'.pops = <<>> /\ call'.served = 0 )]_vars

\* a call with no slot made while patients of both categories are waiting
C13_Witness ==
    /\ call.op = "servePatients"
    /\ call.max_to_serve = 0
    /\ urgent_queue # <<>>
    /\ normal_queue # <<>>

\* a call with slots made while nobody is waiting
C13_WitnessEmpty ==
    /\ call.op = "servePatients"
    /\ call.max_to_serve > 0
    /\ call.pops = <<>>
    /\ total_patients = 0

(***************************************************************************)
(* C16: within a category patients leave in the order they were admitted:  *)
(* of two served patients of one category the one admitted first is served *)
(* first, nobody is served or discarded while a patient of the same        *)
(* category admitted earlier is still queued, and servePatients only ever  *)
(* removes patients from the head of a queue.                              *)
(***************************************************************************)
C16_FifoWithinTier ==
    [][ /\ \A i, j \in 1..Len(served_patients') :
              (i < j /\ served_patients'[i].type = served_patients'[j].type)
                 => served_patients'[i].n < served_patients'[j].n
        /\ \A x \in Range(served_patients') \cup Range(discarded') :
              \A q \in Range(urgent_queue') \cup Range(normal_queue') :
                 x.type = q.type => x.n < q.n
        /\ ServeStep => ( /\ IsSuffix(urgent_queue', urgent_queue)
                          /\ IsSuffix(normal_queue', normal_queue) )]_vars

\* two patients of one category served by two different calls
C16_Witness ==
    /\ Len(served_patients) = 2
    /\ served_patients[1].type = served_patients[2].type
    /\ served_patients[1].n = 1
    /\ served_minute[1] < served_minute[2]

\* number of elements of q whose admission ordinal is k
Occurrences(q, k) == Cardinality({i \in 1..Len(q) : q[i].n = k})

(***************************************************************************)
(* C19: total_patients = |urgent_queue| + |normal_queue| + total_served +  *)
(* the number of patients discarded so far, and every admitted patient is  *)
(* in exactly one of: urgent_queue, normal_queue, served_patients, the     *)
(* discarded ones.                                                         *)
(***************************************************************************)
C19_Conservation ==
    /\ total_patients = Len(urgent_queue) + Len(normal_queue) + total_served + Len(discarded)
    /\ total_served = Len(served_patients)
    /\ total_served + Len(urgent_queue) + Len(normal_queue) <= total_patients
    /\ \A k \in 1..add_calls :
          Occurrences(urgent_queue, k) + Occurrences(normal_queue, k)
             + Occurrences(served_patients, k) + Occurrences(discarded, k) = 1

\* one patient was served and another one discarded
C19_Witness ==
    /\ total_patients = 2
    /\ total_served = 1
    /\ Len(discarded) = 1

\* p is an initial part of q
IsPrefix(p, q) == Len(p) <= Len(q) /\ p = SubSeq(q, 1, Len(p))

(***************************************************************************)
(* C12: over every operation (addPatient, servePatients, displayQueues,    *)
(* displayStatistics, isUrgentQueueEmpty, isNormalQueueEmpty) the value of *)
(* served_patients before is an initial part of its value after, and only  *)
(* servePatients makes it longer.                                          *)
(***************************************************************************)
C12_ServedAppendOnly ==
    [][ /\ IsPrefix(served_patients, served_patients')
        /\ served_patients' # served_patients => ServeStep ]_vars

\* displayQueues printed a log that two servePatients calls had extended
C12_Witness ==
    /\ call.op = "displayQueues"
    /\ Len(call.served) = 2
    /\ Len(served_patients) = 2
    /\ served_minute[1] # served_minute[2]

(***************************************************************************)
(* C14: displayStatistics reports no average exactly when total_served is  *)
(* 0, otherwise the quotient of total_waiting_time by a total_served that  *)
(* is not 0, and it changes nothing of the scheduler.                      *)
(***************************************************************************)
C14_Statistics ==
    [][call'.op = "displayStatistics" =>
          /\ UNCHANGED scheduler
          /\ call'.total_served = total_served
          /\ ~call'.average.available <=> total_served = 0
          /\ call'.average.available =>
                /\ call'.average.count = total_served
                /\ call'.average.count # 0
                /\ call'.average.sum = total_waiting_time]_vars

\* the statistics of a scheduler whose every patient was discarded
C14_Witness ==
    /\ call.op = "displayStatistics"
    /\ ~call.average.available
    /\ total_patients > 0
    /\ Len(discarded) = total_patients
    /\ urgent_queue = <<>> /\ normal_queue = <<>>

\* the statistics after a patient was served
C14_WitnessServed ==
    /\ call.op = "displayStatistics"
    /\ call.average.available
    /\ call.average.count = 1

\* the category field of a console line, upper-cased
CategoryOf(line) == ToUpperAll(ParseRecord(TrimRight(line)).type)

(***************************************************************************)
(* C15: when main reads a record whose category, upper-cased, is neither   *)
(* URGENT nor NORMAL (a record without a category field included), the     *)
(* queues, served_patients, all counters and minute are unchanged,         *)
(* addPatient is not called and the loop goes on; so every patient         *)
(* admitted inside the loop has one of the two categories.                 *)
(***************************************************************************)
C15_RejectedEntry ==
    [][ /\ call'.op = "rejected" =>
              /\ CategoryOf(call'.line) \notin {STR_URGENT, STR_NORMAL}
              /\ UNCHANGED <<scheduler, minute, add_calls>>
              /\ pc = "loop" /\ pc' = "loop"
        /\ (pc = "loop" /\ AddStep) =>
              /\ call'.op = "addPatient"
              /\ call'.patient.type \in {STR_URGENT, STR_NORMAL} ]_vars

\* a record without a category was read after the first "next"
C15_Witness ==
    /\ call.op = "rejected"
    /\ call.line = LINE_short
    /\ minute >= 1
    /\ pc = "loop"
    /\ Queued # {}

\* the patient has, at the current minute, a wait over the limit of servePatients
Stale(p) == TooLong(WaitingTime(p, minute))

\* q is in order of arrival, nobody in it arrived after the current minute, and
\* its stale patients come first
InTickOrder(q) ==
    /\ \A i, j \in 1..Len(q) : i < j => q[i].arrival_minute <= q[j].arrival_minute
    /\ \A i \in 1..Len(q) : q[i].arrival_minute <= minute
    /\ \A i, j \in 1..Len(q) : (i < j /\ Stale(q[j])) => Stale(q[i])

(***************************************************************************)
(* C20: under main, minute grows by exactly 1 on each "next" step and is   *)
(* unchanged by every other input; an admitted patient has arrival_minute  *)
(* equal to the minute of its admission and keeps it; so each queue is in  *)
(* order of arrival_minute, no queued patient has arrival_minute above     *)
(* minute, every waiting_time computed is >= 0, and the patients of a      *)
(* queue that waited more than 10 are its first ones.                      *)
(***************************************************************************)
C20_TickDiscipline ==
    /\ InTickOrder(urgent_queue) /\ InTickOrder(normal_queue)
    /\ [][ /\ minute' = IF ServeStep THEN minute + 1 ELSE minute
           /\ AddStep => call'.patient.arrival_minute = minute
           /\ \A x \in AllAdmitted : \A y \in AllAdmitted' : x.n = y.n => x = y
           /\ ServeStep => \A i \in 1..Len(call'.pops) : call'.pops[i].waiting_time >= 0
           /\ InTickOrder(urgent_queue') /\ InTickOrder(normal_queue') ]_vars

\* at minute 11 a patient of minute 0 is queued before one entered later
C20_Witness ==
    /\ pc = "loop"
    /\ minute = 11
    /\ Len(normal_queue) >= 2
    /\ Stale(normal_queue[1])
    /\ ~Stale(Last(normal_queue))
    /\ Last(normal_queue).arrival_minute >= 1

(***************************************************************************)
(* C17: when main leaves its loop with "All patients have been served",    *)
(* total_served = total_patients and every patient ever passed to          *)
(* addPatient is in served_patients.                                       *)
(***************************************************************************)
C17_AllServedAtEnd ==
    pc \in {"report", "exit"} =>
        /\ total_served = total_patients
        /\ \A k \in 1..add_calls : Occurrences(served_patients, k) = 1

\* the minute of the latest admission
LastAdmission ==
    CHOOSE m \in {p.arrival_minute : p \in AllAdmitted} :
        \A p \in AllAdmitted : p.arrival_minute <= m

\* the servePatients call finds patients queued, all of them with a wait over 10
AllQueuedStaleAtCall ==
    /\ ServeStep
    /\ Queued # {}
    /\ \A p \in Queued : call'.minute - p.arrival_minute > 10

(***************************************************************************)
(* C18, as claimed: a servePatients call whose minute exceeds the          *)
(* arrival_minute of every queued patient by more than 10 empties both     *)
(* queues whatever max_to_serve is.                                        *)
(***************************************************************************)
C18_AsClaimed ==
    [][AllQueuedStaleAtCall => (urgent_queue' = <<>> /\ normal_queue' = <<>>)]_vars

(***************************************************************************)
(* C18, amended: a servePatients call with max_to_serve >= 1 whose minute  *)
(* exceeds the arrival_minute of every queued patient by more than 10      *)
(* empties both queues and serves nobody; so main is still in its loop     *)
(* only at minutes up to 11 after the latest admission and has left it     *)
(* after at most 12 "next" steps from then, 12 in all when nobody is       *)
(* admitted after the cohort of minute 0.                                  *)
(***************************************************************************)
C18_Termination ==
    [][ /\ (AllQueuedStaleAtCall /\ call'.max_to_serve >= 1) =>
              /\ urgent_queue' = <<>>
              /\ normal_queue' = <<>>
              /\ call'.served = 0
        /\ pc' = "loop" => minute' <= LastAdmission' + 11
        /\ pc' \in {"report", "exit"} => minute' <= LastAdmission' + 12
        /\ (pc' \in {"loop", "report", "exit"} /\ add_calls' = CrowdSize) => minute' <= 12 ]_vars

\* main left its loop at the 12th "next" step, which dropped the patients left
C18_Witness ==
    /\ pc = "report"
    /\ minute = 12
    /\ add_calls = CrowdSize
    /\ call.op = "servePatients"
    /\ call.served = 0
    /\ call.pops # <<>>
    /\ discarded # <<>>

====
